---- MODULE Spec2Model ----
(***************************************************************************)
(* Model of models/data-source-definition.js (loopback-workspace):         *)
(*   - the 'message' handler of invokeMethodInWorkspace with its two       *)
(*     error classifiers missingConnector and invocationError,             *)
(*   - the callbacks of prototype testConnection / automigrate /           *)
(*     autoupdate,                                                         *)
(*   - the normalisation of the arguments of invokeMethodInWorkspace,      *)
(*   - the worker channel (fork, once('message'), send),                   *)
(*   - the legacy in-process static testConnection.                        *)
(***************************************************************************)
EXTENDS Naturals, Sequences, FiniteSets, TLC

(***************************************************************************)
(* Bounds of the model.                                                    *)
(***************************************************************************)
\* longest text (in tokens) in front of the structured-error marker
MaxHead == 3
\* most keys of the "properties" object of a structured error
MaxProps == 1
\* calls of invokeMethodInWorkspace that can be in flight together
NumCalls == 2
\* most messages the workers send, all together
MaxMsgs == 2
\* most times a connector calls the callback of ping back after ping has
\* returned
MaxFires == 2
\* most arguments of a call of invokeMethodInWorkspace, behind the method
\* name
MaxArgs == 3

(***************************************************************************)
(* JavaScript values.  Every value is a tagged record, so that values of   *)
(* different types can sit in one argument list.  A string is a sequence   *)
(* of tokens (pieces of text); an object is a map from keys to values.     *)
(***************************************************************************)
Undef == [t |-> "undefined"]
Null == [t |-> "null"]
Bool(b) == [t |-> "boolean", b |-> b]
Num == [t |-> "number"]
Str(s) == [t |-> "string", s |-> s]
Fn(name) == [t |-> "function", name |-> name]
Obj(class, f) == [t |-> "object", class |-> class, f |-> f]

\* a piece of text
T(k) == [k |-> k]
\* the text of a connector id
Id(c) == [k |-> "id", id |-> c]
\* the text JSON.stringify gives for the value doc
Json(doc) == [k |-> "json", doc |-> doc]
\* a one-token string
Word(k) == Str(<<T(k)>>)

\* o[k] / o.k : a missing key and a property of a primitive read undefined
Get(o, k) == IF o.t = "object" /\ k \in DOMAIN o.f THEN o.f[k] ELSE Undef

\* o[k] = v for every k of g (own keys of g win)
Assign(o, g) ==
  Obj(o.class, [k \in DOMAIN o.f \cup DOMAIN g |->
                  IF k \in DOMAIN g THEN g[k] ELSE o.f[k]])

\* ToBoolean
Truthy(v) ==
  CASE v.t = "undefined" -> FALSE
    [] v.t = "null" -> FALSE
    [] v.t = "boolean" -> v.b
    [] v.t = "string" -> v.s # <<>>
    [] OTHER -> TRUE

\* new Error(m): message is "" when m is undefined; name comes from
\* Error.prototype; stack is the one captured here
NewError(m) ==
  Obj("Error", [message |-> IF m = Undef THEN Str(<<>>) ELSE m,
                name |-> Word("Error"),
                stack |-> Word("stack captured at new Error")])

(***************************************************************************)
(* The error classifiers of invokeMethodInWorkspace.                       *)
(***************************************************************************)
\* this.connector of the definition the calls are made on
connector == "mysql"

Min(S) == CHOOSE x \in S : \A y \in S : x <= y
Max(S) == CHOOSE x \in S : \A y \in S : x >= y

\* '.' of a regular expression matches no line terminator; of the tokens
\* only the marker "--datasource-invoke-error--\n" holds one
HasNewline(tok) == tok = T("MARK")

\* the i at which /LoopBack connector "(.*)" is not installed/ can match s
\* with the closing text at j
MissingMatches(s) ==
  {p \in (1..Len(s)) \X (1..Len(s)) :
     /\ p[1] < p[2]
     /\ s[p[1]] = T("LBC")
     /\ s[p[2]] = T("NI")
     /\ \A m \in p[1]..p[2] : ~HasNewline(s[m])}

\* match[1] of String.prototype.match: leftmost start, greedy (.*)
MissingCapture(s) ==
  LET ms == MissingMatches(s)
      i == Min({p[1] : p \in ms})
      j == Max({p[2] : p \in {q \in ms : q[1] = i}})
  IN SubSeq(s, i + 1, j - 1)

\* a slip: the whole match, match[0], compared with the connector
missingConnector_match0(err, conn) ==
  LET s == Get(err, "message").s
  IN IF MissingMatches(s) # {}
        /\ <<T("LBC")>> \o MissingCapture(s) \o <<T("NI")>> = <<Id(conn)>>
     THEN Assign(NewError(Str(<<T("CONN"), Id(conn), T("NI"), T("DOT")>>)),
                 [name |-> Word("InvocationError"),
                  code |-> Word("ER_INVALID_CONNECTOR")])
     ELSE Undef

\* a slip: the origin of the worker's error is kept on the new error
missingConnector_keepsOrigin(err, conn) ==
  LET s == Get(err, "message").s
  IN IF MissingMatches(s) # {} /\ MissingCapture(s) = <<Id(conn)>>
     THEN Assign(NewError(Str(<<T("CONN"), Id(conn), T("NI"), T("DOT")>>)),
                 [name |-> Word("InvocationError"),
                  code |-> Word("ER_INVALID_CONNECTOR"),
                  origin |-> Get(err, "origin")])
     ELSE Undef

missingConnector(err, conn) ==
  LET s == Get(err, "message").s
  IN IF MissingMatches(s) # {} /\ MissingCapture(s) = <<Id(conn)>>
     THEN Assign(NewError(Str(<<T("CONN"), Id(conn), T("NI"), T("DOT")>>)),
                 [name |-> Word("InvocationError"),
                  code |-> Word("ER_INVALID_CONNECTOR")])
     ELSE Undef

\* match[1] of /--datasource-invoke-error--\n((.|[\r\n])*)$/: all the text
\* behind the first marker
MarkerTail(s) ==
  LET m == Min({i \in 1..Len(s) : s[i] = T("MARK")})
  IN SubSeq(s, m + 1, Len(s))

\* JSON.parse(text) returns (does not throw a SyntaxError)
JsonParses(text) == Len(text) = 1 /\ text[1].k = "json"

JsonParse(text) == text[1].doc

\* how the try block ends on match[1] = text: JSON.parse throws a
\* SyntaxError, reading errorData.message of null throws a TypeError, or
\* the block returns the new error
TryOutcome(text) ==
  IF ~JsonParses(text) THEN "SyntaxError"
  ELSE IF JsonParse(text) = Null THEN "TypeError"
  ELSE "returns"

\* a slip: only the SyntaxError of JSON.parse is expected and taken
Catches_syntaxOnly(exception) == exception = "SyntaxError"

\* catch(jsonerr) takes whatever the try block throws
Catches(exception) == exception \in {"SyntaxError", "TypeError"}

\* a slip: origin and stack are set before the properties are copied
InvocationErrorFrom_copyLast(errorData) ==
  LET e0 == Assign(NewError(Get(errorData, "message")),
                   [name |-> Word("InvocationError"),
                    origin |-> Get(errorData, "origin"),
                    stack |-> Get(errorData, "stack")])
      props == Get(errorData, "properties")
  IN IF props.t = "object" THEN Assign(e0, props.f) ELSE e0

\* the error the try block builds from errorData
InvocationErrorFrom(errorData) ==
  LET e0 == Assign(NewError(Get(errorData, "message")),
                   [name |-> Word("InvocationError")])
      props == Get(errorData, "properties")
      e1 == IF props.t = "object" THEN Assign(e0, props.f) ELSE e0
  IN Assign(e1, [origin |-> Get(errorData, "origin"),
                 stack |-> Get(errorData, "stack")])

HasMarker(s) == \E i \in 1..Len(s) : s[i] = T("MARK")

invocationError(err) ==
  LET s == Get(err, "message").s
      text == MarkerTail(s)
  IN IF HasMarker(s) /\ TryOutcome(text) = "returns"
     THEN InvocationErrorFrom(JsonParse(text))
     ELSE Undef

\* invocationError(err) ends by an exception that its catch does not take
invocationErrorThrows(err) ==
  LET s == Get(err, "message").s
  IN /\ HasMarker(s)
     /\ TryOutcome(MarkerTail(s)) # "returns"
     /\ ~Catches(TryOutcome(MarkerTail(s)))

\* a slip: invocationError(err) || missingConnector(err) || err
Classify_invocationFirst(err, conn) ==
  LET missing == missingConnector(err, conn)
      invocation == invocationError(err)
  IN IF Truthy(invocation) THEN invocation
     ELSE IF Truthy(missing) THEN missing
     ELSE err

\* missingConnector(err) || invocationError(err) || err
Classify(err, conn) ==
  LET missing == missingConnector(err, conn)
      invocation == invocationError(err)
  IN IF Truthy(missing) THEN missing
     ELSE IF Truthy(invocation) THEN invocation
     ELSE err

\* the 'message' handler ends by an exception: err.message.match is no
\* function when err.message is no string, or a classifier throws
HandlerThrows(msg, conn) ==
  /\ Truthy(msg.error)
  /\ \/ Get(msg.error, "message").t # "string"
     \/ /\ ~Truthy(missingConnector(msg.error, conn))
        /\ invocationErrorThrows(msg.error)

\* a slip: the callback arguments follow a null error argument
HandlerArgs_nullFirst(msg, conn) ==
  IF Truthy(msg.error) THEN <<Classify(msg.error, conn)>>
  ELSE <<Null>> \o msg.callbackArgs

\* the arguments the 'message' handler calls cb with
HandlerArgs(msg, conn) ==
  IF Truthy(msg.error) THEN <<Classify(msg.error, conn)>>
  ELSE msg.callbackArgs

\* a slip: the error of ping is not looked at
TestConnectionCb_ignoresErr(args) == <<Null, Bool(TRUE)>>

\* a slip: every error of ping is reported as a negative result
TestConnectionCb_allData(args) ==
  LET err == IF Len(args) >= 1 THEN args[1] ELSE Undef
  IN IF ~Truthy(err) THEN <<Null, Bool(TRUE)>>
     ELSE <<Null, Bool(FALSE),
            Obj("Object", [message |-> Get(err, "message"),
                           code |-> Get(err, "code"),
                           details |-> Get(err, "details"),
                           stack |-> Get(err, "stack")])>>

\* the arguments the callback of prototype testConnection calls cb with
TestConnectionCb(args) ==
  LET err == IF Len(args) >= 1 THEN args[1] ELSE Undef
  IN IF ~Truthy(err) THEN <<Null, Bool(TRUE)>>
     ELSE IF Get(err, "origin") = Word("invoke")
          THEN <<Null, Bool(FALSE),
                 Obj("Object", [message |-> Get(err, "message"),
                                code |-> Get(err, "code"),
                                details |-> Get(err, "details"),
                                stack |-> Get(err, "stack")])>>
          ELSE <<err>>

\* the public operations that go through invokeMethodInWorkspace
Ops == {"testConnection", "automigrate", "autoupdate"}

\* the method name each of them invokes in the worker
MethodName(op) == IF op = "testConnection" THEN "ping" ELSE op

\* what the caller's callback receives when the handler calls cb(args)
CallerArgs(op, args) ==
  IF op = "testConnection" THEN TestConnectionCb(args) ELSE args

(***************************************************************************)
(* The worker messages the handler is checked on.                          *)
(***************************************************************************)
Ids == {"mysql", "memory"}

\* LBC is the text 'LoopBack connector "', CONN the text 'Connector "',
\* NI the text '" is not installed', DOT the text '.'
HeadToks == {T("LBC"), T("CONN"), T("NI")} \cup {Id(c) : c \in Ids}

SeqsUpTo(S, n) == UNION {[1..k -> S] : k \in 0..n}

Heads == SeqsUpTo(HeadToks, MaxHead)

PropKeys == {"message", "stack", "origin", "name", "code"}

PropMaps ==
  UNION {[K -> {Word("pv")}] :
           K \in {K \in SUBSET PropKeys : Cardinality(K) <= MaxProps}}

JsonObjects ==
  {Obj("Object", [message |-> Word("jm"), stack |-> Word("js"),
                  origin |-> o, properties |-> Obj("Object", pm)]) :
     o \in {Word("invoke"), Word("other")}, pm \in PropMaps}

\* null, a number, an object with a message alone, the objects above
JsonDocs ==
  {Null, Num, Obj("Object", [message |-> Word("jm")])} \cup JsonObjects

\* nothing, or the marker followed by nothing, by text that is no JSON, by
\* a JSON text, or by a JSON text with more text behind it
Tails ==
  {<<>>, <<T("MARK")>>, <<T("MARK"), T("DOT")>>,
   <<T("MARK"), Json(Num), T("DOT")>>} \cup
  {<<T("MARK"), Json(d)>> : d \in JsonDocs}

\* msg.error of a failed invocation
RawErrors ==
  {Obj("Object", [message |-> Str(h \o tl), origin |-> o,
                  code |-> Word("ECONNREFUSED"), stack |-> Word("rs")]) :
     h \in Heads, tl \in Tails, o \in {Word("invoke"), Word("other")}}

\* the values a worker passes back
Results == {Bool(TRUE), Word("x")}

OkArgs ==
  {<<>>} \cup {<<x>> : x \in Results} \cup {<<Null, x>> : x \in Results}

WorkerMessages ==
  {[error |-> e, callbackArgs |-> <<>>] : e \in RawErrors} \cup
  {[error |-> e, callbackArgs |-> a] : e \in {Undef, Null}, a \in OkArgs}

(***************************************************************************)
(* State.                                                                  *)
(***************************************************************************)
VARIABLES
  hMsg,         \* the first message the worker of the call sends
  hOp,          \* the public operation called, "none" before the call
  hCbCalls,     \* the argument lists the handler has called cb with
  hCallerCalls, \* the argument lists the caller's callback has received
  hThrew        \* the 'message' handler ended by an exception

hvars == <<hMsg, hOp, hCbCalls, hCallerCalls, hThrew>>

VARIABLES
  pc,           \* where each call stands in invokeMethodInWorkspace
  callOp,       \* the public operation of each call
  child,        \* the worker process of each call
  listener,     \* the one-shot 'message' listener of each child is on
  toChild,      \* the messages sent to each worker, not yet received
  workerGot,    \* the requests each worker has received
  toParent,     \* the messages each worker has sent, not yet received
  sentCount,    \* the number of messages the workers have sent
  received,     \* the messages received from each worker, in order
  cbCalls,      \* the argument lists cb of each call was called with
  callerCalls,  \* the argument lists the caller's callback received
  alone         \* the call was made when every earlier call was over

cvars == <<pc, callOp, child, listener, toChild, workerGot, toParent,
           sentCount, received, cbCalls, callerCalls, alone>>

VARIABLES
  pPlan,        \* what the connector and the caller's callback will do
  ppc,          \* static testConnection: "idle", "returned" or "threw"
  pCalls,       \* the calls of the caller's callback: its arguments, and
                \* whether testConnection had yet to return (during)
  pFired,       \* the times ping has called back after it returned
  pUncaught     \* an exception of the callback went into the connector

pvars == <<pPlan, ppc, pCalls, pFired, pUncaught>>

VARIABLES
  nArguments,   \* the arguments of a call, behind the method name
  npc,          \* "idle", "normalized", or "answered" once cb was called
  nCb,          \* the callback chosen by lines 210-216
  nArgs,        \* the args of the message to the worker
  nCallerCalls, \* the calls of a callback the caller passed
  nLog          \* what console.error has printed

nvars == <<nArguments, npc, nCb, nArgs, nCallerCalls, nLog>>

vars == <<hvars, cvars, pvars, nvars>>

(***************************************************************************)
(* One call whose worker answers with hMsg: the 'message' handler and the  *)
(* callback of the operation run on it.                                    *)
(***************************************************************************)
Calls == 1..NumCalls

\* the state of the channel before any call
CIdle ==
  /\ pc = [c \in Calls |-> "idle"]
  /\ callOp = [c \in Calls |-> "none"]
  /\ child = [c \in Calls |-> "none"]
  /\ listener = [c \in Calls |-> FALSE]
  /\ toChild = [c \in Calls |-> <<>>]
  /\ workerGot = [c \in Calls |-> <<>>]
  /\ toParent = [c \in Calls |-> <<>>]
  /\ sentCount = 0
  /\ received = [c \in Calls |-> <<>>]
  /\ cbCalls = [c \in Calls |-> <<>>]
  /\ callerCalls = [c \in Calls |-> <<>>]
  /\ alone = [c \in Calls |-> FALSE]

\* the handler state before any message
HIdle ==
  /\ hMsg = [error |-> Undef, callbackArgs |-> <<>>]
  /\ hOp = "none"
  /\ hCbCalls = <<>>
  /\ hCallerCalls = <<>>
  /\ hThrew = FALSE

\* static testConnection before any call, on no data
PIdle ==
  /\ pPlan = [ctor |-> "none", ping |-> "none", err |-> Undef, fires |-> 0,
              cbThrows |-> FALSE]
  /\ ppc = "idle"
  /\ pCalls = <<>>
  /\ pFired = 0
  /\ pUncaught = FALSE

\* the argument normalisation before any call, on no arguments
NIdle ==
  /\ nArguments = <<>>
  /\ npc = "idle"
  /\ nCb = Undef
  /\ nArgs = <<>>
  /\ nCallerCalls = <<>>
  /\ nLog = <<>>

HInit ==
  /\ CIdle
  /\ PIdle
  /\ NIdle
  /\ hMsg \in WorkerMessages
  /\ hOp = "none"
  /\ hCbCalls = <<>>
  /\ hCallerCalls = <<>>
  /\ hThrew = FALSE

OnFirstMessage(op) ==
  /\ hOp = "none"
  /\ hOp' = op
  /\ LET throws == HandlerThrows(hMsg, connector)
         args == HandlerArgs(hMsg, connector)
     IN /\ hThrew' = throws
        /\ IF throws
           THEN hCbCalls' = <<>> /\ hCallerCalls' = <<>>
           ELSE /\ hCbCalls' = <<args>>
                /\ hCallerCalls' = <<CallerArgs(op, args)>>
  /\ UNCHANGED <<hMsg, cvars, pvars, nvars>>

HNext == \E op \in Ops : OnFirstMessage(op)

HandlerSpec == HInit /\ [][HNext]_vars

(***************************************************************************)
(* The worker channel of invokeMethodInWorkspace.  The function runs to    *)
(* its end before the event loop emits any 'message'; the worker is a      *)
(* process of its own and runs beside it.                                  *)
(***************************************************************************)
\* the arguments each public operation hands to invokeMethodInWorkspace
\* behind the method name
Arguments(op) ==
  IF op = "testConnection" THEN <<Fn("testConnection")>>
  ELSE <<Word("Model"), Fn("caller")>>

\* lines 203-221: the callback is the last argument when that is a
\* function, else invokeComplete; the undefined arguments are dropped
IsDefined(v) == v # Undef

NormalizedCb(args) ==
  IF Len(args) > 0 /\ args[Len(args)].t = "function" THEN args[Len(args)]
  ELSE Fn("invokeComplete")

\* a slip: args.filter(Boolean), every falsy argument is dropped
NormalizedArgs_falsy(args) ==
  SelectSeq(IF Len(args) > 0 /\ args[Len(args)].t = "function"
            THEN SubSeq(args, 1, Len(args) - 1) ELSE args,
            Truthy)

NormalizedArgs(args) ==
  SelectSeq(IF Len(args) > 0 /\ args[Len(args)].t = "function"
            THEN SubSeq(args, 1, Len(args) - 1) ELSE args,
            IsDefined)

\* the message child.send sends
Request(op) ==
  [dir |-> "workspace", dataSourceName |-> "db",
   methodName |-> MethodName(op), args |-> NormalizedArgs(Arguments(op))]

\* lines 212-214: invokeComplete prints the error it is given, if any
InvokeCompleteLog(err) == IF Truthy(err) THEN <<err>> ELSE <<>>

\* the values a caller passes behind the method name
ArgValues ==
  {Undef, Null, Word("Model"), Fn("caller"), Fn("other")}

ArgLists == UNION {[1..n -> ArgValues] : n \in 0..MaxArgs}

\* what the callback is called with: nothing, or an error
Answers == {Undef, Obj("Error", [message |-> Word("connect ECONNREFUSED")])}

NInit ==
  /\ CIdle
  /\ HIdle
  /\ PIdle
  /\ nArguments \in ArgLists
  /\ npc = "idle"
  /\ nCb = Undef
  /\ nArgs = <<>>
  /\ nCallerCalls = <<>>
  /\ nLog = <<>>

\* lines 203-221, and the args of the message of lines 236-241
Normalize ==
  /\ npc = "idle"
  /\ npc' = "normalized"
  /\ nCb' = NormalizedCb(nArguments)
  /\ nArgs' = NormalizedArgs(nArguments)
  /\ UNCHANGED <<nArguments, nCallerCalls, nLog, hvars, cvars, pvars>>

\* the 'message' handler calls cb(err)
Answer(err) ==
  /\ npc = "normalized"
  /\ npc' = "answered"
  /\ IF nCb = Fn("invokeComplete")
     THEN nLog' = nLog \o InvokeCompleteLog(err) /\ UNCHANGED nCallerCalls
     ELSE nCallerCalls' = Append(nCallerCalls, <<err>>) /\ UNCHANGED nLog
  /\ UNCHANGED <<nArguments, nCb, nArgs, hvars, cvars, pvars>>

NNext ==
  \/ Normalize
  \/ \E e \in Answers : Answer(e)

NormSpec == NInit /\ [][NNext]_vars

\* the operations called on the channel: autoupdate runs the code of
\* automigrate
ChannelOps == {"testConnection", "automigrate"}

\* the messages the workers of the channel send
ChannelMessages ==
  {[error |-> Undef, callbackArgs |-> <<Null, Bool(TRUE)>>],
   [error |-> Obj("Object", [message |-> Word("connect ECONNREFUSED"),
                             origin |-> Word("invoke")]),
    callbackArgs |-> <<>>]}

\* no call is inside invokeMethodInWorkspace: the event loop can run
ParentIdle == \A d \in Calls : pc[d] \in {"idle", "sent"}

\* call d is over: its callback has been called and nothing of its worker
\* is on the way
Settled(d) ==
  /\ pc[d] = "sent"
  /\ cbCalls[d] # <<>>
  /\ toChild[d] = <<>>
  /\ toParent[d] = <<>>

\* line 223: fork; the worker starts or fails to start.  The calls are
\* numbered in the order they are made; alone records that the call is
\* made in sequence, after the calls before it.
Fork(c, op, started) ==
  /\ ParentIdle
  /\ pc[c] = "idle"
  /\ \A d \in Calls : d < c => pc[d] # "idle"
  /\ pc' = [pc EXCEPT ![c] = "forked"]
  /\ callOp' = [callOp EXCEPT ![c] = op]
  /\ child' = [child EXCEPT ![c] = IF started THEN "running" ELSE "failed"]
  /\ alone' = [alone EXCEPT ![c] = \A d \in Calls : pc[d] = "idle" \/ Settled(d)]
  /\ UNCHANGED <<listener, toChild, workerGot, toParent, sentCount,
                 received, cbCalls, callerCalls, hvars, pvars, nvars>>

\* a slip: once('mesage', ...), nothing listens to 'message'
OnceRegisters_wrongEvent(on) == on

\* child.once('message', ...) puts the listener on
OnceRegisters(on) == TRUE

\* line 226: child.once('message', ...)
Listen(c) ==
  /\ pc[c] = "forked"
  /\ pc' = [pc EXCEPT ![c] = "listening"]
  /\ listener' = [listener EXCEPT ![c] = OnceRegisters(@)]
  /\ UNCHANGED <<callOp, child, toChild, workerGot, toParent, sentCount,
                 received, cbCalls, callerCalls, alone, hvars, pvars, nvars>>

\* lines 236-241: child.send(...), and the function returns; a worker that
\* is not running receives nothing
Send(c) ==
  /\ pc[c] = "listening"
  /\ pc' = [pc EXCEPT ![c] = "sent"]
  /\ toChild' = [toChild EXCEPT ![c] =
                   IF child[c] = "running"
                   THEN Append(@, Request(callOp[c])) ELSE @]
  /\ UNCHANGED <<callOp, child, listener, workerGot, toParent, sentCount,
                 received, cbCalls, callerCalls, alone, hvars, pvars, nvars>>

\* the worker receives the request
WorkerReceive(c) ==
  /\ child[c] = "running"
  /\ toChild[c] # <<>>
  /\ workerGot' = [workerGot EXCEPT ![c] = Append(@, Head(toChild[c]))]
  /\ toChild' = [toChild EXCEPT ![c] = Tail(@)]
  /\ UNCHANGED <<pc, callOp, child, listener, toParent, sentCount,
                 received, cbCalls, callerCalls, alone, hvars, pvars, nvars>>

\* the worker sends a message: it answers the request it has received
WorkerSend(c, m) ==
  /\ child[c] = "running"
  /\ workerGot[c] # <<>>
  /\ sentCount < MaxMsgs
  /\ sentCount' = sentCount + 1
  /\ toParent' = [toParent EXCEPT ![c] = Append(@, m)]
  /\ UNCHANGED <<pc, callOp, child, listener, toChild, workerGot,
                 received, cbCalls, callerCalls, alone, hvars, pvars, nvars>>

\* the worker exits or crashes
WorkerExit(c) ==
  /\ child[c] = "running"
  /\ child' = [child EXCEPT ![c] = "exited"]
  /\ UNCHANGED <<pc, callOp, listener, toChild, workerGot, toParent,
                 sentCount, received, cbCalls, callerCalls, alone, hvars, pvars, nvars>>

\* a slip: child.on('message', ...), the listener stays
ListenerAfterMessage_on(on) == on

\* child.once: the listener is removed when its first message is emitted
ListenerAfterMessage(on) == FALSE

\* a slip: cb is a variable of the module that only the first call sets
\* (cb = cb || args.pop())
CallbackOf_first(c) == 1

\* a slip: cb is a variable of the module, every call overwrites it
CallbackOf_last(c) == Max({d \in Calls : pc[d] # "idle"})

\* line 205: cb is a variable of the call; the handler of call c calls the
\* cb of call c
CallbackOf(c) == c

\* the event loop emits 'message' for the next message of worker c; lines
\* 226-233 run when the listener is on
Deliver(c) ==
  /\ ParentIdle
  /\ toParent[c] # <<>>
  /\ toParent' = [toParent EXCEPT ![c] = Tail(@)]
  /\ received' = [received EXCEPT ![c] = Append(@, Head(toParent[c]))]
  /\ listener' = [listener EXCEPT ![c] = ListenerAfterMessage(@)]
  /\ IF listener[c] /\ ~HandlerThrows(Head(toParent[c]), connector)
     THEN LET args == HandlerArgs(Head(toParent[c]), connector)
              o == CallbackOf(c)
          IN /\ cbCalls' = [cbCalls EXCEPT ![o] = Append(@, args)]
             /\ callerCalls' = [callerCalls EXCEPT ![o] =
                                  Append(@, CallerArgs(callOp[o], args))]
     ELSE UNCHANGED <<cbCalls, callerCalls>>
  /\ UNCHANGED <<pc, callOp, child, toChild, workerGot, sentCount, alone, hvars, pvars, nvars>>

Init == CIdle /\ HIdle /\ PIdle /\ NIdle

Next ==
  \E c \in Calls :
    \/ \E op \in ChannelOps, started \in BOOLEAN : Fork(c, op, started)
    \/ Listen(c)
    \/ Send(c)
    \/ WorkerReceive(c)
    \/ \E m \in ChannelMessages : WorkerSend(c, m)
    \/ WorkerExit(c)
    \/ Deliver(c)

Spec == Init /\ [][Next]_vars

\* the event loop and the workers keep running
FairSpec ==
  /\ Spec
  /\ \A c \in Calls :
       /\ WF_vars(Listen(c))
       /\ WF_vars(Send(c))
       /\ WF_vars(WorkerReceive(c))
       /\ WF_vars(WorkerExit(c))
       /\ WF_vars(Deliver(c))

(***************************************************************************)
(* Static testConnection, the legacy probe that runs in this process.      *)
(***************************************************************************)
\* what ping reports: nothing or null (success), or an error of the
\* connector
PingErrors ==
  {Undef, Null, Obj("Error", [message |-> Word("connect ECONNREFUSED")])}

\* what the data leads to: the constructor or toDataSource throws; ping
\* throws; ping calls back before it returns ("calls") or not ("waits"),
\* and calls back "fires" times afterwards.  cbThrows: the caller's
\* callback throws when it is called the first time.
Plans ==
  {[ctor |-> "throws", ping |-> "none", err |-> Undef, fires |-> 0,
    cbThrows |-> t] : t \in BOOLEAN} \cup
  {[ctor |-> "returns", ping |-> "throws", err |-> Undef, fires |-> 0,
    cbThrows |-> t] : t \in BOOLEAN} \cup
  {[ctor |-> "returns", ping |-> "calls", err |-> e, fires |-> n,
    cbThrows |-> t] : e \in PingErrors, n \in 0..MaxFires, t \in BOOLEAN} \cup
  {[ctor |-> "returns", ping |-> "waits", err |-> Undef, fires |-> n,
    cbThrows |-> t] : n \in 0..MaxFires, t \in BOOLEAN}

\* lines 94-95
FixedError ==
  NewError(Word("Cannot connect to the data source. Ensure the configuration is valid and the connector is installed."))

\* a slip: cb(err, !!err)
PingCallbackArgs_sameFlag(err) == <<err, Bool(Truthy(err))>>

\* line 84: cb(err, !err)
PingCallbackArgs(err) == <<err, Bool(~Truthy(err))>>

\* the try block ends by an exception: of the constructor, of ping, or of
\* the callback that ping called
TryThrows(plan) ==
  \/ plan.ctor = "throws"
  \/ plan.ping = "throws"
  \/ plan.ping = "calls" /\ plan.cbThrows

\* lines 81-96: the arguments of the calls of cb made before
\* testConnection returns, in order
SyncCalls(plan) ==
  (IF plan.ctor = "returns" /\ plan.ping = "calls"
   THEN <<PingCallbackArgs(plan.err)>> ELSE <<>>)
  \o (IF TryThrows(plan) THEN <<<<FixedError>>>> ELSE <<>>)

\* cb throws out of the catch block: it is called there for the first time
CatchThrows(plan) ==
  TryThrows(plan) /\ plan.cbThrows /\ Len(SyncCalls(plan)) = 1

PInit ==
  /\ CIdle
  /\ HIdle
  /\ NIdle
  /\ pPlan \in Plans
  /\ ppc = "idle"
  /\ pCalls = <<>>
  /\ pFired = 0
  /\ pUncaught = FALSE

\* DataSourceDefinition.testConnection(data, cb), from call to return
StaticTestConnection ==
  /\ ppc = "idle"
  /\ ppc' = IF CatchThrows(pPlan) THEN "threw" ELSE "returned"
  /\ pCalls' = [i \in 1..Len(SyncCalls(pPlan)) |->
                  [args |-> SyncCalls(pPlan)[i], during |-> TRUE]]
  /\ UNCHANGED <<pPlan, pFired, pUncaught, hvars, cvars, nvars>>

\* the connector calls the callback of ping after ping has returned
PingCallsBack(err) ==
  /\ ppc = "returned"
  /\ pPlan.ping \in {"calls", "waits"}
  /\ pFired < pPlan.fires
  /\ pFired' = pFired + 1
  /\ pCalls' = Append(pCalls, [args |-> PingCallbackArgs(err),
                               during |-> FALSE])
  /\ pUncaught' = (pUncaught \/ (pPlan.cbThrows /\ pCalls = <<>>))
  /\ UNCHANGED <<pPlan, ppc, hvars, cvars, nvars>>

PNext ==
  \/ StaticTestConnection
  \/ \E e \in PingErrors : PingCallsBack(e)

ProbeSpec == PInit /\ [][PNext]_vars

\* the call is made and the connector does what it is going to do
ProbeFairSpec == ProbeSpec /\ WF_vars(PNext)

(***************************************************************************)
(* Properties of the 'message' handler, checked under HandlerSpec.         *)
(***************************************************************************)
hErr == hMsg.error
hText == Get(hErr, "message").s
hDelivered == hOp # "none"
\* the worker answered with an error and the handler has run
hFailed == hDelivered /\ Truthy(hErr)
\* the one argument cb was called with
hResult == hCbCalls[1][1]
hCalledOnce == ~hThrew /\ Len(hCbCalls) = 1 /\ Len(hCallerCalls) = 1

IsError(e) == e.t = "object" /\ e.class = "Error"

IsMissingConnectorError(e) ==
  /\ IsError(e)
  /\ Get(e, "code") = Word("ER_INVALID_CONNECTOR")
  /\ Get(e, "message") = Str(<<T("CONN"), Id(connector), T("NI"), T("DOT")>>)

\* the text holds 'connector "<id>" is not installed' for the configured
\* id, in either spelling of the first word
NamesConnector(s) ==
  \E i \in 1..Len(s) :
    /\ i + 2 <= Len(s)
    /\ s[i] \in {T("LBC"), T("CONN")}
    /\ s[i + 1] = Id(connector)
    /\ s[i + 2] = T("NI")

\* the first 'LoopBack connector "' of the text is followed by the
\* configured id and '" is not installed', and no further
\* '" is not installed' follows on that line
FirstNamesConnector(s) ==
  \E i \in 1..Len(s) :
    /\ i + 2 <= Len(s)
    /\ s[i] = T("LBC")
    /\ \A h \in 1..(i - 1) : s[h] # T("LBC")
    /\ s[i + 1] = Id(connector)
    /\ s[i + 2] = T("NI")
    /\ \A j \in (i + 3)..Len(s) :
         s[j] = T("NI") => \E m \in (i + 3)..j : HasNewline(s[m])

\* C5 as stated: every error whose message names the configured connector
\* as not installed, 'Connector "mysql" is not installed.' included, reaches
\* the callback as a MissingConnector error with code ER_INVALID_CONNECTOR.
C5_AnySpelling ==
  (hFailed /\ NamesConnector(hText)) =>
    (hCalledOnce /\ Len(hCbCalls[1]) = 1 /\ IsMissingConnectorError(hResult))

\* C5 amended: when the first 'LoopBack connector "' of the message is
\* followed by the configured id and '" is not installed', with no later
\* '" is not installed' on the line, the callback receives one Error with
\* code ER_INVALID_CONNECTOR and message 'Connector "<id>" is not installed.'.
C5_MissingConnector ==
  (hFailed /\ FirstNamesConnector(hText)) =>
    (hCalledOnce /\ Len(hCbCalls[1]) = 1 /\ IsMissingConnectorError(hResult))

C5_Witness ==
  /\ hFailed
  /\ hText = <<T("LBC"), Id(connector), T("NI")>>
  /\ IsMissingConnectorError(hResult)

\* the message carries the marker followed by the JSON text of one value
hHasJson == HasMarker(hText) /\ JsonParses(MarkerTail(hText))
hJson == JsonParse(MarkerTail(hText))
\* missingConnector returned its error
hIsMissing == Truthy(missingConnector(hErr, connector))

\* every key of the properties of the JSON value is on e with its value
HasProperties(e, keys) ==
  \A k \in DOMAIN Get(hJson, "properties").f \cap keys :
    Get(e, k) = Get(hJson, "properties").f[k]

\* C6 as stated: the marker followed by valid JSON (and no MissingConnector
\* match) gives an InvocationError whose message and stack are the JSON's
\* and which carries every key of properties with the value given there,
\* keys named message, stack or origin included.
C6_EveryProperty ==
  (hFailed /\ hHasJson /\ ~hIsMissing) =>
    /\ hCalledOnce
    /\ IsError(hResult)
    /\ Get(hResult, "name") = Word("InvocationError")
    /\ Get(hResult, "message") = Get(hJson, "message")
    /\ Get(hResult, "stack") = Get(hJson, "stack")
    /\ Get(hJson, "properties").t = "object" => HasProperties(hResult, PropKeys)

\* C6 amended: the marker followed by the JSON text of an object (and no
\* MissingConnector match) gives a new Error whose stack and origin are the
\* JSON's stack and origin, whose message is the JSON's message unless
\* properties has a key message, whose name is InvocationError unless
\* properties has a key name, and which carries every key of properties
\* other than stack and origin with the value given there.
C6_InvocationError ==
  (hFailed /\ hHasJson /\ hJson.t = "object" /\ ~hIsMissing) =>
    LET props == Get(hJson, "properties")
        keys == IF props.t = "object" THEN DOMAIN props.f ELSE {}
    IN /\ hCalledOnce
       /\ IsError(hResult)
       /\ Get(hResult, "stack") = Get(hJson, "stack")
       /\ Get(hResult, "origin") = Get(hJson, "origin")
       /\ "message" \notin keys =>
            Get(hResult, "message") = Get(hJson, "message")
       /\ "name" \notin keys =>
            Get(hResult, "name") = Word("InvocationError")
       /\ props.t = "object" =>
            HasProperties(hResult, PropKeys \ {"stack", "origin"})

C6_Witness ==
  /\ hFailed /\ hHasJson /\ hJson.t = "object" /\ ~hIsMissing
  /\ Get(hJson, "properties").t = "object"
  /\ "stack" \in DOMAIN Get(hJson, "properties").f
  /\ Get(hResult, "stack") = Word("js")

\* the marker is followed by text JSON.parse rejects
hMalformed == HasMarker(hText) /\ ~JsonParses(MarkerTail(hText))

\* C7 as stated: the classifier never throws, and the marker followed by
\* malformed JSON or by JSON that is no object (no MissingConnector match)
\* ends with the callback receiving the original error, once.
C7_NonObjectIsGeneric ==
  hDelivered =>
    /\ hCalledOnce
    /\ (hFailed /\ ~hIsMissing /\ (hMalformed \/ (hHasJson /\ hJson.t # "object")))
         => hCbCalls[1] = <<hErr>>

\* C7 amended: on an error whose message is a string the classifier never
\* throws and the callback is called once; the marker followed by malformed
\* JSON or by the JSON value null (no MissingConnector match) ends with the
\* callback receiving the original error unchanged; the marker followed by
\* another JSON value that is no object (a number, a string, a boolean) gives
\* a new InvocationError with an empty message instead.
C7_NeverThrows ==
  hDelivered =>
    /\ hCalledOnce
    /\ (hFailed /\ ~hIsMissing /\ (hMalformed \/ (hHasJson /\ hJson = Null)))
         => hCbCalls[1] = <<hErr>>
    /\ (hFailed /\ ~hIsMissing /\ hHasJson /\ hJson.t \notin {"object", "null"})
         => /\ IsError(hResult)
            /\ Get(hResult, "name") = Word("InvocationError")
            /\ Get(hResult, "message") = Str(<<>>)

C7_Witness ==
  /\ hFailed /\ ~hIsMissing /\ hHasJson /\ hJson = Null
  /\ hCbCalls = << <<hErr>> >>

\* C4 as stated: a first message {callbackArgs: [x]} with no error ends with
\* the caller's callback receiving (null, x), for every operation.
C4_NullThenX ==
  (hDelivered /\ ~Truthy(hErr) /\ Len(hMsg.callbackArgs) = 1) =>
    (hCalledOnce /\ hCallerCalls[1] = <<Null, hMsg.callbackArgs[1]>>)

\* C4 amended: a first message with no error ends with cb receiving exactly
\* the elements of callbackArgs, in their positions: (x) for [x], (null, x)
\* for [null, x]; the callbacks of automigrate and autoupdate receive just
\* that.
C4_Positional ==
  (hDelivered /\ ~Truthy(hErr)) =>
    /\ hCalledOnce
    /\ hCbCalls[1] = hMsg.callbackArgs
    /\ hOp \in {"automigrate", "autoupdate"} =>
         hCallerCalls[1] = hMsg.callbackArgs

C4_Witness ==
  /\ hDelivered /\ ~Truthy(hErr) /\ hOp = "automigrate"
  /\ hMsg.callbackArgs = <<Null, Word("x")>>
  /\ hCallerCalls = << <<Null, Word("x")>> >>

\* the details prototype testConnection builds from err
Details(err) ==
  Obj("Object", [message |-> Get(err, "message"), code |-> Get(err, "code"),
                 details |-> Get(err, "details"), stack |-> Get(err, "stack")])

\* C3 as stated: in prototype testConnection, an error of the response with
\* origin 'invoke' reaches the caller as (null, false, details) and never
\* as an error; an error of any other origin is the one argument.
C3_ResponseOrigin ==
  (hFailed /\ hOp = "testConnection") =>
    /\ hCalledOnce
    /\ IF Get(hErr, "origin") = Word("invoke")
       THEN /\ Len(hCallerCalls[1]) = 3
            /\ hCallerCalls[1][1] = Null
            /\ hCallerCalls[1][2] = Bool(FALSE)
       ELSE /\ Len(hCallerCalls[1]) = 1
            /\ Truthy(hCallerCalls[1][1])

\* the origin that decides in prototype testConnection: none when the
\* error is a MissingConnector, the origin of the JSON when the marker is
\* followed by JSON other than null, the origin of the response's error
\* when that error is passed through
DecidingOrigin ==
  IF hIsMissing THEN Undef
  ELSE IF hHasJson /\ hJson # Null THEN Get(hJson, "origin")
  ELSE Get(hErr, "origin")

\* C3 amended: in prototype testConnection the origin of the classified
\* error decides (DecidingOrigin): when it is 'invoke' the caller receives
\* (null, false, {message, code, details, stack}) of the classified error,
\* otherwise the classified error is the first and only argument.
C3_ClassifiedOrigin ==
  (hFailed /\ hOp = "testConnection") =>
    /\ hCalledOnce
    /\ IF DecidingOrigin = Word("invoke")
       THEN hCallerCalls[1] = <<Null, Bool(FALSE), Details(hResult)>>
       ELSE hCallerCalls[1] = <<hResult>>

C3_Witness ==
  /\ hFailed /\ hOp = "testConnection"
  /\ ~hIsMissing /\ ~HasMarker(hText)
  /\ Get(hErr, "origin") = Word("invoke")
  /\ hCallerCalls = << <<Null, Bool(FALSE), Details(hErr)>> >>

\* the first 'LoopBack connector "' of the text is followed by the id of
\* a connector that is not the configured one and '" is not installed'
FirstNamesOtherConnector(s) ==
  \E i \in 1..Len(s) :
    /\ i + 2 <= Len(s)
    /\ s[i] = T("LBC")
    /\ \A h \in 1..(i - 1) : s[h] # T("LBC")
    /\ s[i + 1].k = "id" /\ s[i + 1] # Id(connector)
    /\ s[i + 2] = T("NI")

\* the text holds no 'LoopBack connector "' followed by
\* '" is not installed', and no marker
MatchesNoRule(s) ==
  /\ ~\E i, j \in 1..Len(s) : i < j /\ s[i] = T("LBC") /\ s[j] = T("NI")
  /\ ~\E i \in 1..Len(s) : s[i] = T("MARK")

hStatusTrue ==
  \E i \in 1..Len(hCallerCalls) :
    Len(hCallerCalls[i]) >= 2 /\ hCallerCalls[i][2] = Bool(TRUE)

\* C15 as stated: prototype testConnection calls back (null, true) exactly
\* when the response of the worker carries no error, whatever callbackArgs
\* holds, and reports no true status when the response carries an error.
C15_TrueIffNoError ==
  (hDelivered /\ hOp = "testConnection" /\ ~hThrew) =>
    /\ ~Truthy(hErr) <=> hCallerCalls = << <<Null, Bool(TRUE)>> >>
    /\ Truthy(hErr) => ~hStatusTrue

\* the first of the callbackArgs of the response, undefined when there is
\* none
hFirstArg ==
  IF Len(hMsg.callbackArgs) >= 1 THEN hMsg.callbackArgs[1] ELSE Undef

\* C15 amended: prototype testConnection calls back (null, true) exactly
\* when the response carries no error and callbackArgs is empty or begins
\* with a falsy value; a truthy first element of callbackArgs is taken as
\* the error of ping; no true status is reported when the response
\* carries an error.
C15_TrueIffNoErrorArg ==
  (hDelivered /\ hOp = "testConnection" /\ ~hThrew) =>
    /\ (~Truthy(hErr) /\ ~Truthy(hFirstArg))
         <=> hCallerCalls = << <<Null, Bool(TRUE)>> >>
    /\ (~Truthy(hErr) /\ Truthy(hFirstArg))
         => hCallerCalls = << <<hFirstArg>> >>
    /\ Truthy(hErr) => ~hStatusTrue

C15_Witness ==
  /\ hDelivered /\ hOp = "testConnection"
  /\ ~Truthy(hErr)
  /\ hMsg.callbackArgs = <<Null, Word("x")>>
  /\ hCallerCalls = << <<Null, Bool(TRUE)>> >>

\* C18: in prototype testConnection an error classified as MissingConnector
\* is reported as cb(err) with code ER_INVALID_CONNECTOR, and never as
\* (null, false, details), whatever the origin of the worker's error.
C18_MissingConnectorIsHard ==
  (hFailed /\ hOp = "testConnection" /\ FirstNamesConnector(hText)) =>
    /\ hCalledOnce
    /\ Len(hCallerCalls[1]) = 1
    /\ IsMissingConnectorError(hCallerCalls[1][1])
    /\ Get(hCallerCalls[1][1], "code") = Word("ER_INVALID_CONNECTOR")

C18_Witness ==
  /\ hFailed /\ hOp = "testConnection"
  /\ FirstNamesConnector(hText)
  /\ Get(hErr, "origin") = Word("invoke")
  /\ hCallerCalls = << <<hResult>> >>
  /\ IsMissingConnectorError(hResult)

(***************************************************************************)
(* Properties of the worker channel, checked under Spec and FairSpec.      *)
(***************************************************************************)
\* C1: the callback of a call is invoked at most once, however many
\* messages its worker sends: only the first message received is handled
\* as the response, every later one leaves the callbacks alone.
C1_AtMostOnce ==
  \A c \in Calls :
    /\ Len(callerCalls[c]) <= 1
    /\ cbCalls[c] = IF received[c] = <<>> THEN <<>>
                    ELSE <<HandlerArgs(received[c][1], connector)>>

C1_Witness ==
  \E c \in Calls :
    /\ Len(received[c]) = 2
    /\ received[c][1] # received[c][2]
    /\ Len(callerCalls[c]) = 1

\* C2: the callback of every call is eventually invoked, and exactly once,
\* also when the worker fails to start, crashes or exits without sending
\* a message.
C2_EventuallyOnce ==
  \A c \in Calls :
    /\ [](Len(callerCalls[c]) <= 1)
    /\ (pc[c] = "sent") ~> (Len(callerCalls[c]) = 1)

\* the first message of the worker of call c has been handled
Answered(c) == received[c] # <<>>

\* C12: two calls of the same operation (testConnection) made in sequence
\* on one definition, whose workers answer the same, end the same: the
\* second call sends the request the first sent and its callback receives
\* what the callback of the first received; the callbacks of the first
\* call receive nothing from the second.
C12_Idempotent ==
  \A c, d \in Calls :
    (/\ c < d /\ alone[d]
     /\ callOp[c] = callOp[d]
     /\ Answered(d)
     /\ received[c][1] = received[d][1])
    => /\ callerCalls[d] = callerCalls[c]
       /\ cbCalls[d] = cbCalls[c]
       /\ Len(callerCalls[d]) = 1
       /\ (workerGot[c] # <<>> /\ workerGot[d] # <<>>)
            => workerGot[d] = workerGot[c]

C12_Witness ==
  \E c, d \in Calls :
    /\ c < d /\ alone[d]
    /\ callOp[c] = "testConnection" /\ callOp[d] = "testConnection"
    /\ Answered(d)
    /\ received[c][1] = received[d][1]
    /\ workerGot[c] # <<>> /\ workerGot[d] # <<>>
    /\ Len(callerCalls[d]) = 1
    /\ callerCalls[d] = callerCalls[c]

\* C13: with several calls in flight at once and the messages of their
\* workers received in any order, the worker of each call receives the
\* request of that call only, and the callback of each call is invoked
\* with the response of its own worker and with nothing else.
C13_OwnResponse ==
  \A c \in Calls :
    /\ \A i \in 1..Len(workerGot[c]) : workerGot[c][i] = Request(callOp[c])
    /\ callerCalls[c] =
         IF Answered(c)
         THEN <<CallerArgs(callOp[c],
                           HandlerArgs(received[c][1], connector))>>
         ELSE <<>>

C13_Witness ==
  \E c, d \in Calls :
    /\ c < d /\ ~alone[d]
    /\ Answered(c) /\ Answered(d)
    /\ received[c][1] # received[d][1]
    /\ callOp[c] # callOp[d]
    /\ workerGot[c] # <<>> /\ workerGot[d] # <<>>
    /\ Len(callerCalls[c]) = 1 /\ Len(callerCalls[d]) = 1
    /\ callerCalls[c] # callerCalls[d]

\* the requests sent to the worker of call c so far
RequestsSent(c) == workerGot[c] \o toChild[c]

\* C17: one call sends its worker one request {dir, dataSourceName,
\* methodName, args} and no more, and the one-shot handler is on when the
\* request is sent: in no state has the worker been sent the request
\* while no response was received and no handler is registered.
C17_HandlerBeforeRequest ==
  \A c \in Calls :
    /\ Len(RequestsSent(c)) <= 1
    /\ (pc[c] = "sent" /\ child[c] = "running") => Len(RequestsSent(c)) = 1
    /\ \A i \in 1..Len(RequestsSent(c)) :
         /\ RequestsSent(c)[i] = Request(callOp[c])
         /\ DOMAIN RequestsSent(c)[i] =
              {"dir", "dataSourceName", "methodName", "args"}
    /\ (RequestsSent(c) # <<>> /\ ~Answered(c)) => listener[c]

C17_Witness ==
  \E c \in Calls :
    /\ workerGot[c] = <<Request(callOp[c])>>
    /\ toParent[c] # <<>>
    /\ ~Answered(c)
    /\ listener[c]

(***************************************************************************)
(* Properties of static testConnection, checked under ProbeSpec and        *)
(* ProbeFairSpec.                                                          *)
(***************************************************************************)
\* C8: one call of static testConnection invokes the callback once: no
\* second call back of ping and no exception thrown while the first outcome
\* is delivered invokes it a second time.
C8_SingleOutcome == Len(pCalls) <= 1

\* the connector never reports: ping neither calls back nor throws
Silent == pPlan.ctor = "returns" /\ pPlan.ping = "waits" /\ pPlan.fires = 0

\* C9: when the connector never reports, the caller eventually receives
\* one error (the timeout), and no success afterwards.
C9_TimeoutFires ==
  /\ (ppc = "returned" /\ Silent)
       ~> (Len(pCalls) = 1 /\ Truthy(pCalls[1].args[1]))
  /\ [](Silent => \A i \in 1..Len(pCalls) : Truthy(pCalls[i].args[1]))

\* C10: no callback is invoked before the operation that was given it has
\* returned: the calls of the channel are made by the event loop, and the
\* error of static testConnection is deferred.
C10_NeverSynchronous ==
  /\ \A i \in 1..Len(pCalls) : ~pCalls[i].during
  /\ \A c \in Calls : callerCalls[c] # <<>> => pc[c] = "sent"

(***************************************************************************)
(* Properties of the argument normalisation, checked under NormSpec.       *)
(***************************************************************************)
IsCallable(v) == v.t = "function"

nNormalized == npc # "idle"
nLastCallable ==
  nArguments # <<>> /\ IsCallable(nArguments[Len(nArguments)])
\* the arguments that are not taken as the callback
nRemaining ==
  IF nLastCallable THEN SubSeq(nArguments, 1, Len(nArguments) - 1)
  ELSE nArguments

RECURSIVE WithoutUndefined(_)
WithoutUndefined(s) ==
  IF s = <<>> THEN <<>>
  ELSE (IF Head(s) = Undef THEN <<>> ELSE <<Head(s)>>)
       \o WithoutUndefined(Tail(s))

\* the callback is the final argument when that is callable, else the
\* default one, which prints the error and calls nothing of the caller
nCallbackChosen ==
  /\ nCb = IF nLastCallable THEN nArguments[Len(nArguments)]
           ELSE Fn("invokeComplete")
  /\ (npc = "answered" /\ ~nLastCallable) =>
       /\ nCallerCalls = <<>>
       /\ Len(nLog) <= 1
       /\ \A i \in 1..Len(nLog) : Truthy(nLog[i])

\* C11 as stated: a callable final argument becomes the callback and is not
\* sent, else the default callback that only logs is used; the args sent
\* are the remaining arguments without the undefined ones, in order, and
\* no callable is among them.
C11_NoCallableSent ==
  nNormalized =>
    /\ nCallbackChosen
    /\ nArgs = WithoutUndefined(nRemaining)
    /\ \A i \in 1..Len(nArgs) : ~IsCallable(nArgs[i])

\* C11 amended: a callable final argument becomes the callback and is not
\* sent, else the default callback that only logs is used; the args sent
\* are the remaining arguments without the undefined ones, in order; the
\* callables among them are exactly the callables that are not the final
\* argument.
C11_Normalized ==
  nNormalized =>
    /\ nCallbackChosen
    /\ nArgs = WithoutUndefined(nRemaining)
    /\ Len(nArgs) <= Len(nRemaining)
    /\ SelectSeq(nArgs, IsCallable) = SelectSeq(nRemaining, IsCallable)

C11_Witness ==
  /\ nNormalized
  /\ nLastCallable
  /\ nCb = Fn("caller")
  /\ \E i \in 1..Len(nRemaining) : nRemaining[i] = Undef
  /\ nArgs = <<Word("Model")>>

\* the call of cb with the one error of the catch block
IsFixedFailure(args) ==
  /\ Len(args) = 1
  /\ IsError(args[1])
  /\ Get(args[1], "message") =
       Word("Cannot connect to the data source. Ensure the configuration is valid and the connector is installed.")

\* the calls of cb made by the callback of ping
pPingOutcomes ==
  {i \in 1..Len(pCalls) : ~IsFixedFailure(pCalls[i].args)}

\* C16: in static testConnection, when building the data source or ping
\* throws, the caller receives one error with the fixed message and no
\* status; every time ping completes the caller receives (err, status)
\* with status true exactly when err is absent.
C16_ProbeOutcome ==
  ppc # "idle" =>
    /\ (pPlan.ctor = "throws" \/ pPlan.ping = "throws")
         => Len(pCalls) = 1 /\ IsFixedFailure(pCalls[1].args)
    /\ \A i \in pPingOutcomes :
         /\ Len(pCalls[i].args) = 2
         /\ pCalls[i].args[2] = Bool(~Truthy(pCalls[i].args[1]))
    /\ Cardinality(pPingOutcomes) =
         pFired + (IF pPlan.ping = "calls" THEN 1 ELSE 0)

C16_Witness ==
  /\ ppc = "returned"
  /\ pPlan.ctor = "returns" /\ pPlan.ping = "throws"
  /\ Len(pCalls) = 1
  /\ IsFixedFailure(pCalls[1].args)

====
